---- MODULE Spec2Model ----
(***************************************************************************)
(* Mastery trees (src/mastery_tree.py): the tree data model, the tree       *)
(* generators and fill strategies, and the hybridization loop               *)
(* create_hybrid_tree.                                                     *)
(*                                                                         *)
(* A MasteryPoint is a record [name, tier]; Python compares points by      *)
(* instance, and every instance is created with its own name here, so      *)
(* record equality is instance identity.  A MasteryTree is a record        *)
(* [species, points, maximum_tree_value] whose points map tiers 1..5 to    *)
(* lists of points.                                                        *)
(***************************************************************************)
EXTENDS Integers, Sequences, FiniteSets, TLC

VARIABLES first_tree, second_tree, pool, nt, pc, tier, err,
          mt, before, call, generator, tree_value, dic, lines, aliases

vars == <<first_tree, second_tree, pool, nt, pc, tier, err,
          mt, before, call, generator, tree_value, dic, lines, aliases>>

hybrid_vars == <<first_tree, second_tree, pool, nt, err, aliases>>

gen_vars == <<mt, before, call, generator, tree_value, dic, lines>>

\* range(1, 6): the tiers of a tree.
Tiers == 1..5

\* maximum_tree_value: int = 47, the default budget of MasteryTree.__init__.
DefaultMaximumTreeValue == 47

\* Python's None where a tier is expected (get_smallest_free_tier).
None == 0

Range(s) == {s[i] : i \in 1..Len(s)}

\* {1: [], 2: [], 3: [], 4: [], 5: []}
EmptyPoints == [t \in Tiers |-> <<>>]

\* MasteryPoint(name, tier); dependee and dependers stay None everywhere.
MasteryPoint(name, t) == [name |-> name, tier |-> t]

\* MasteryTree(species, mastery_points, maximum_tree_value)
MasteryTree(species, mastery_points, maximum_tree_value) ==
    [species |-> species, points |-> mastery_points,
     maximum_tree_value |-> maximum_tree_value]

\* A tree variable that holds no tree (not yet built, or never built).
NoTree == MasteryTree(<<>>, EmptyPoints, 0)

get_tier_value(tree, t) == Len(tree.points[t]) * t

RECURSIVE get_cumulative_tier_value(_, _)
get_cumulative_tier_value(tree, t) ==
    IF t < 1 THEN 0
    ELSE get_cumulative_tier_value(tree, t - 1) + get_tier_value(tree, t)

\* Faulty variant of is_viable: the gate of tier 1 is left out.
is_viable_without_first_gate(tree) ==
    /\ get_cumulative_tier_value(tree, 2) >= 3
    /\ get_cumulative_tier_value(tree, 3) >= 6
    /\ get_cumulative_tier_value(tree, 4) >= 10

is_viable(tree) ==
    /\ get_cumulative_tier_value(tree, 1) >= 1
    /\ get_cumulative_tier_value(tree, 2) >= 3
    /\ get_cumulative_tier_value(tree, 3) >= 6
    /\ get_cumulative_tier_value(tree, 4) >= 10

get_current_value(tree) == get_cumulative_tier_value(tree, 5)

get_available_space(tree) == tree.maximum_tree_value - get_current_value(tree)

is_complete(tree) == get_current_value(tree) = tree.maximum_tree_value

is_finished(tree) == is_viable(tree) /\ is_complete(tree)

\* Faulty variants of the guard of add_point: one forgets the point's tier,
\* one accepts every point.
add_point_fits_no_tier(tree, point) ==
    get_current_value(tree) <= tree.maximum_tree_value

add_point_fits_any(tree, point) == TRUE

\* if self.get_current_value() + point.tier <= self.maximum_tree_value
add_point_fits(tree, point) ==
    get_current_value(tree) + point.tier <= tree.maximum_tree_value

\* Faulty variant of add_point: the point lands in the bucket of the next tier.
add_point_next_tier(tree, point) ==
    [tree EXCEPT !.points[(point.tier % 5) + 1] = Append(@, point)]

\* self.points[point.tier].append(point)
add_point(tree, point) ==
    [tree EXCEPT !.points[point.tier] = Append(@, point)]

get_number_of_points_by_tier(tree, t) == Len(tree.points[t])

RECURSIVE SumLen(_, _)
SumLen(points, t) == IF t < 1 THEN 0 ELSE SumLen(points, t - 1) + Len(points[t])

get_total_number_of_points(tree) == SumLen(tree.points, 5)

\* Faulty variant of the test of fuse: any two trees are fused.
fuse_accepts_any(a, b) == TRUE

\* if self.maximum_tree_value == mastery_tree.maximum_tree_value
fuse_accepts(a, b) == a.maximum_tree_value = b.maximum_tree_value

\* Faulty variant of fuse: the points of mastery_tree are left out.
fuse_keeps_self(a, b) ==
    MasteryTree(<<"fuse">> \o a.species \o <<"&">> \o b.species,
                a.points, a.maximum_tree_value)

\* Faulty variant of the buckets of fuse: self's lists, extended in place.
fuse_shares_self(self, mastery_tree) == {<<"first", t>> : t \in Tiers}

\* The lists of the new tree that are lists of an input tree, as pairs of
\* the input ("first" for self, "second" for mastery_tree) and the tier:
\* none, each list is self.points[key].copy() + mastery_tree.points[key].copy().
fuse_shares(self, mastery_tree) == {}

\* The tree fuse returns when it does not raise.
fuse(a, b) ==
    MasteryTree(<<"fuse">> \o a.species \o <<"&">> \o b.species,
                [key \in Tiers |-> a.points[key] \o b.points[key]],
                a.maximum_tree_value)

\* Faulty variant of contains: no point is ever found.
contains_never(tree, point) == FALSE

\* point in self.points[point.tier]
contains(tree, point) == point \in Range(tree.points[point.tier])

\* random.choice(self.points[tier]): the points a draw can return.
get_random_by_tier(tree, t) == Range(tree.points[t])

\* Faulty variant of get_smallest_free_tier: the lowest tier where the pool
\* holds any point, drawn or not.
get_min_tier_of_pool(tree, p) ==
    IF \E t \in Tiers : Len(p.points[t]) > 0
    THEN CHOOSE t \in Tiers :
           /\ Len(p.points[t]) > 0
           /\ \A k \in 1..(t - 1) : Len(p.points[k]) = 0
    ELSE None

\* Faulty variant of get_smallest_free_tier, the subset test reversed: the
\* lowest tier where the tree holds a point the pool does not.
get_smallest_free_tier_reversed(tree, p) ==
    IF \E t \in Tiers : ~(Range(tree.points[t]) \subseteq Range(p.points[t]))
    THEN CHOOSE t \in Tiers :
           /\ ~(Range(tree.points[t]) \subseteq Range(p.points[t]))
           /\ \A k \in 1..(t - 1) :
                Range(tree.points[k]) \subseteq Range(p.points[k])
    ELSE None

\* for tier in range(1, 6): if not set(pool.points[tier]).issubset(
\* tree.points[tier]): return tier; return None
get_smallest_free_tier(tree, p) ==
    IF \E t \in Tiers : ~(Range(p.points[t]) \subseteq Range(tree.points[t]))
    THEN CHOOSE t \in Tiers :
           /\ ~(Range(p.points[t]) \subseteq Range(tree.points[t]))
           /\ \A k \in 1..(t - 1) :
                Range(p.points[k]) \subseteq Range(tree.points[k])
    ELSE None

\* create_random_mp(tier, prefix): a fresh instance named prefix plus six
\* random letters; rnd stands for the letters, which make the name its own.
create_random_mp(t, prefix, rnd) == MasteryPoint(<<prefix, rnd>>, t)

\* [create_random_mp(tier, f"{prefix}_t{tier}_{nb}_") for nb in range(n)]
create_list_of_random_mp(t, n, prefix, rnd) ==
    [i \in 1..n |-> create_random_mp(t, <<prefix, t, i - 1>>, rnd)]

\* Faulty variant of the budget of generate_from_dict: the number of points.
RECURSIVE SumCounts(_, _)
SumCounts(d, t) == IF t < 1 THEN 0 ELSE SumCounts(d, t - 1) + d[t]

\* sum([tier*n_pts for tier, n_pts in dic.items()])
RECURSIVE SumTierTimesCount(_, _)
SumTierTimesCount(d, t) ==
    IF t < 1 THEN 0 ELSE SumTierTimesCount(d, t - 1) + t * d[t]

generate_from_dict(d, name, rnd) ==
    MasteryTree(<<name>>,
                [t \in Tiers |-> create_list_of_random_mp(t, d[t], "", rnd)],
                SumTierTimesCount(d, 5))

\* MasteryTree(name, {tier: create_list_of_random_mp(tier, n, name)}): the
\* constructor call the skeleton generators make, maximum_tree_value defaulted.
tree_of_lists(d, name, rnd) ==
    MasteryTree(<<name>>,
                [t \in Tiers |-> create_list_of_random_mp(t, d[t], name, rnd)],
                DefaultMaximumTreeValue)

\* The tree_value argument is accepted and not passed to MasteryTree.
generate_heavy_viable(name, tv, rnd) == tree_of_lists(<<1, 2, 3, 4, 1>>, name, rnd)

generate_light_viable(name, tv, rnd) == tree_of_lists(<<4, 3, 2, 1, 1>>, name, rnd)

(***************************************************************************)
(* create_hybrid_tree(first_tree, second_tree)                             *)
(***************************************************************************)

\* Bound: the most points a tree built by generate_from_dict holds here.
MaxDictPoints == 2

\* The {tier: number_of_points} dictionaries handed to generate_from_dict.
DictInputs ==
    {d \in [Tiers -> 0..MaxDictPoints] :
        d[1] + d[2] + d[3] + d[4] + d[5] <= MaxDictPoints}

\* A dictionary of no points, also held where no dictionary is at hand.
NoCounts == [t \in Tiers |-> 0]

\* Trees of the default budget built like the skeletons, with other counts
\* per tier.  Wide fused with Tall is a pool worth 50, more than the budget,
\* from which the hybrid can end finished or short of the budget; Low fused
\* with High is a pool worth 48.
WideCounts == <<1, 1, 2, 4, 0>>

TallCounts == <<0, 0, 0, 0, 5>>

LowCounts == <<1, 1, 1, 3, 0>>

HighCounts == <<0, 0, 0, 0, 6>>

\* The trees the first argument is drawn from.
FirstTrees(counts) ==
    {generate_from_dict(d, "A", "a") : d \in DictInputs}
    \cup {MasteryTree(<<"A">>, EmptyPoints, DefaultMaximumTreeValue),
          tree_of_lists(counts, "A", "a")}

\* The trees the second argument is drawn from, when it is another tree.
SecondTrees(counts) ==
    {generate_from_dict(d, "B", "b") : d \in DictInputs}
    \cup {MasteryTree(<<"B">>, EmptyPoints, DefaultMaximumTreeValue),
          tree_of_lists(counts, "B", "b")}

HybridIdle ==
    /\ pool = NoTree
    /\ nt = NoTree
    /\ tier = 1
    /\ err = "none"
    /\ aliases = {}

GenIdle ==
    /\ mt = NoTree
    /\ before = NoTree
    /\ call = [op |-> "none", point |-> MasteryPoint(<<>>, 1), raised |-> FALSE]
    /\ generator = "none"
    /\ tree_value = 0
    /\ dic = NoCounts
    /\ lines = <<>>

\* create_hybrid_tree(A, B) on two trees, or create_hybrid_tree(A, A).
Init ==
    /\ first_tree \in FirstTrees(WideCounts)
    /\ second_tree \in SecondTrees(TallCounts) \cup {first_tree}
    /\ pc = "start"
    /\ HybridIdle
    /\ GenIdle

\* The same calls, with the smaller pool of the default budget.
LiveInit ==
    /\ first_tree \in FirstTrees(LowCounts)
    /\ second_tree \in SecondTrees(HighCounts) \cup {first_tree}
    /\ pc = "start"
    /\ HybridIdle
    /\ GenIdle

\* pool = first_tree.fuse(second_tree); nt = MasteryTree(f"... hybrid")
CallHybrid ==
    /\ pc = "start"
    /\ IF fuse_accepts(first_tree, second_tree)
       THEN /\ pool' = fuse(first_tree, second_tree)
            /\ nt' = MasteryTree(first_tree.species \o <<"&">>
                                   \o second_tree.species \o <<"hybrid">>,
                                 EmptyPoints, DefaultMaximumTreeValue)
            /\ aliases' = fuse_shares(first_tree, second_tree)
            /\ pc' = "while"
            /\ err' = err
       ELSE /\ pc' = "raised"
            /\ err' = "fuse"
            /\ UNCHANGED <<pool, nt, aliases>>
    /\ UNCHANGED <<first_tree, second_tree, tier>>
    /\ UNCHANGED gen_vars

\* while not nt.is_finished(): ... if smallest_tier_available is None or
\* smallest_tier_available > nt.maximum_tree_value - nt.get_current_value():
\*     return nt
WhileTest ==
    /\ pc = "while"
    /\ LET smallest_tier_available == get_smallest_free_tier(nt, pool) IN
       IF is_finished(nt)
       THEN pc' = "done"
       ELSE IF \/ smallest_tier_available = None
               \/ smallest_tier_available >
                    nt.maximum_tree_value - get_current_value(nt)
            THEN pc' = "done"
            ELSE pc' = "for"
    /\ UNCHANGED <<first_tree, second_tree, pool, nt, tier, err, aliases>>
    /\ UNCHANGED gen_vars

\* Faulty variant of the if of the for body: the space is not looked at.
CanDrawAnyTier == get_number_of_points_by_tier(pool, tier) > 0

\* (pool.get_number_of_points_by_tier(tier) > 0) & (tier <= nt.get_available_space())
CanDraw ==
    /\ get_number_of_points_by_tier(pool, tier) > 0
    /\ tier <= get_available_space(nt)

\* Faulty variant of the for of create_hybrid_tree: every other tier.
NextTierOdd ==
    IF tier >= 4
    THEN pc' = "while" /\ tier' = 1
    ELSE pc' = "for" /\ tier' = tier + 2

\* The next tier of for tier in range(1, 6), or back to the while test.
NextTier ==
    IF tier = 5
    THEN pc' = "while" /\ tier' = 1
    ELSE pc' = "for" /\ tier' = tier + 1

\* The if of the for body is false: nothing is drawn at this tier.
ForSkip ==
    /\ pc = "for"
    /\ ~CanDraw
    /\ NextTier
    /\ UNCHANGED <<first_tree, second_tree, pool, nt, err, aliases>>
    /\ UNCHANGED gen_vars

\* The draw returns a point nt already contains: no insertion.
DrawContained ==
    /\ pc = "for"
    /\ CanDraw
    /\ \E point \in get_random_by_tier(pool, tier) : contains(nt, point)
    /\ NextTier
    /\ UNCHANGED <<first_tree, second_tree, pool, nt, err, aliases>>
    /\ UNCHANGED gen_vars

\* The draw returns a point nt does not contain: nt.add_point(point).
DrawInsert ==
    /\ pc = "for"
    /\ CanDraw
    /\ \E point \in get_random_by_tier(pool, tier) :
         /\ ~contains(nt, point)
         /\ IF add_point_fits(nt, point)
            THEN /\ nt' = add_point(nt, point)
                 /\ NextTier
                 /\ err' = err
            ELSE /\ pc' = "raised"
                 /\ err' = "budget"
                 /\ UNCHANGED <<nt, tier>>
    /\ UNCHANGED <<first_tree, second_tree, pool, aliases>>
    /\ UNCHANGED gen_vars

Next == CallHybrid \/ WhileTest \/ ForSkip \/ DrawContained \/ DrawInsert

\* Bound: the most points a caller adds to a fused tree here.
MaxFusedAdds == 2

\* fused = first_tree.fuse(second_tree), called by a caller.
CallFuse ==
    /\ pc = "start"
    /\ IF fuse_accepts(first_tree, second_tree)
       THEN /\ pool' = fuse(first_tree, second_tree)
            /\ aliases' = fuse_shares(first_tree, second_tree)
            /\ pc' = "fused"
            /\ err' = err
       ELSE /\ pc' = "raised"
            /\ err' = "fuse"
            /\ UNCHANGED <<pool, aliases>>
    /\ UNCHANGED <<first_tree, second_tree, nt, tier>>
    /\ UNCHANGED gen_vars

\* The tree which (an input of fuse) after point was appended to the list
\* of its tier in the fused tree: the append shows in every tree holding that
\* list, and first_tree and second_tree may be one tree.
AfterAppend(which, point) ==
    LET tree == IF which = "first" THEN first_tree ELSE second_tree
        held == \/ <<which, point.tier>> \in aliases
                \/ /\ first_tree = second_tree
                   /\ \E w \in {"first", "second"} : <<w, point.tier>> \in aliases
    IN IF held THEN add_point(tree, point) ELSE tree

\* fused.add_point(create_random_mp(t, "x")), called by a caller.
AddToFused ==
    /\ pc = "fused"
    /\ get_total_number_of_points(pool)
         < get_total_number_of_points(fuse(first_tree, second_tree)) + MaxFusedAdds
    /\ \E t \in Tiers :
         LET point == create_random_mp(t, <<"x">>, Len(pool.points[t])) IN
         IF add_point_fits(pool, point)
         THEN /\ pool' = add_point(pool, point)
              /\ first_tree' = AfterAppend("first", point)
              /\ second_tree' = AfterAppend("second", point)
              /\ UNCHANGED <<pc, err>>
         ELSE /\ pc' = "raised"
              /\ err' = "budget"
              /\ UNCHANGED <<pool, first_tree, second_tree>>
    /\ UNCHANGED <<nt, tier, aliases>>
    /\ UNCHANGED gen_vars

FuseNext == Next \/ CallFuse \/ AddToFused

\* The fuse calls of a caller and of create_hybrid_tree, on the trees of
\* LiveInit.
FuseSpec == LiveInit /\ [][FuseNext]_vars

Spec == Init /\ [][Next]_vars

\* Every step of the loop is taken, and a draw that can return a point nt does
\* not hold eventually returns one (random.choice gives each point of the
\* bucket a positive chance at every draw).
FairSpec == LiveInit /\ [][Next]_vars /\ WF_vars(Next) /\ SF_vars(DrawInsert)

(***************************************************************************)
(* The generators, the fill strategies and add_point calls on their trees.  *)
(***************************************************************************)

\* Bound: the largest tree_value handed to a shape generator.
MaxTreeValueArg == 49

\* Bound: the largest maximum_tree_value of a tree created empty.
MaxEmptyBudget == 6

ShapeGenerators == {"MINLT", "MAXLT", "AVG"}

\* The skeleton each shape generator fills.
Skeleton(g, tv) ==
    IF g = "MINLT"
    THEN generate_heavy_viable(g, tv, "s")
    ELSE generate_light_viable(g, tv, "s")

\* The target values: from the smaller skeleton's value up.
TreeValueArgs ==
    get_current_value(generate_light_viable("AVG", DefaultMaximumTreeValue, "s"))
        .. MaxTreeValueArg

\* The trees a caller holds without any fill: created empty with a budget
\* (a small one, or the default), built by generate_from_dict, or a skeleton
\* of the default budget.
PlainTrees ==
    {MasteryTree(<<"E">>, EmptyPoints, m) : m \in 0..MaxEmptyBudget}
    \cup {MasteryTree(<<"E">>, EmptyPoints, DefaultMaximumTreeValue)}
    \cup {generate_from_dict(d, "D", "d") : d \in DictInputs}
    \cup {generate_heavy_viable("H", DefaultMaximumTreeValue, "s"),
          generate_light_viable("L", DefaultMaximumTreeValue, "s")}

\* The lines a descriptor file holds, each a string of decimal digits.
DescriptorLines == {<<0>>, <<1>>, <<3>>, <<4>>, <<1, 0>>}

\* The descriptor files: five lines, the count of tier i on line i.
DescriptorFiles == [Tiers -> DescriptorLines]

\* int(f.readline().strip()) on a line of decimal digits.
RECURSIVE ParseInt(_)
ParseInt(digits) ==
    IF digits = <<>> THEN 0
    ELSE 10 * ParseInt(SubSeq(digits, 1, Len(digits) - 1)) + digits[Len(digits)]

\* Either a tree is at hand, or a generator is about to be called: the
\* function returned by a shape generator (generate_min_low_tiers(tree_value)
\* and the like), generate_from_dict(dic, name) or tree_from_file(path).
GenInit ==
    /\ first_tree = NoTree
    /\ second_tree = NoTree
    /\ HybridIdle
    /\ before = NoTree
    /\ call = [op |-> "none", point |-> MasteryPoint(<<>>, 1), raised |-> FALSE]
    /\ \/ /\ generator = "none"
          /\ tree_value = DefaultMaximumTreeValue
          /\ mt \in PlainTrees
          /\ pc = "idle"
          /\ dic = NoCounts
          /\ lines = <<>>
       \/ /\ generator \in ShapeGenerators
          /\ tree_value \in TreeValueArgs
          /\ mt = NoTree
          /\ pc = "call"
          /\ dic = NoCounts
          /\ lines = <<>>
       \/ /\ generator = "from_dict"
          /\ tree_value = DefaultMaximumTreeValue
          /\ mt = NoTree
          /\ pc = "call"
          /\ dic \in DictInputs
          /\ lines = <<>>
       \/ /\ generator = "from_file"
          /\ tree_value = DefaultMaximumTreeValue
          /\ mt = NoTree
          /\ pc = "call"
          /\ dic = NoCounts
          /\ lines \in DescriptorFiles

\* generate_from_dict(dic, name) called by a caller.
CallFromDict ==
    /\ pc = "call"
    /\ generator = "from_dict"
    /\ mt' = generate_from_dict(dic, "D", "d")
    /\ pc' = "idle"
    /\ UNCHANGED <<before, call, generator, tree_value, dic, lines, tier>>
    /\ UNCHANGED hybrid_vars

\* tree_from_file(path): d[tier] = int(f.readline().strip()) for the five
\* tiers, then generate_from_dict(d, "tree_" + basename).
TreeFromFile ==
    /\ pc = "call"
    /\ generator = "from_file"
    /\ dic' = [t \in Tiers |-> ParseInt(lines[t])]
    /\ mt' = generate_from_dict(dic', "tree_file", "d")
    /\ pc' = "idle"
    /\ UNCHANGED <<before, call, generator, tree_value, lines, tier>>
    /\ UNCHANGED hybrid_vars

\* mlt_from_tree_value / maxlt_from_tree_value / avglt_from_tree_value: build
\* the skeleton, then enter the fill strategy.
CallGenerator ==
    /\ pc = "call"
    /\ generator \in ShapeGenerators
    /\ mt' = Skeleton(generator, tree_value)
    /\ pc' = IF generator = "MINLT" THEN "heavy"
             ELSE IF generator = "MAXLT" THEN "light" ELSE "even_while"
    /\ tier' = 5
    /\ UNCHANGED <<before, call, generator, tree_value, dic, lines>>
    /\ UNCHANGED hybrid_vars

\* mt.add_point(create_random_mp(t, f"t{t}")) inside a fill strategy; next is
\* where the strategy goes on when the call returns.
FillAdd(t, next_pc, next_tier) ==
    LET point == create_random_mp(t, <<"t", t>>, Len(mt.points[t])) IN
    IF add_point_fits(mt, point)
    THEN /\ mt' = add_point(mt, point)
         /\ pc' = next_pc
         /\ tier' = next_tier
    ELSE /\ pc' = "raised"
         /\ UNCHANGED <<mt, tier>>

\* heavy_fill_tree: while mt.maximum_tree_value - mt.get_current_value() > tier
HeavyAdd ==
    /\ pc = "heavy"
    /\ mt.maximum_tree_value - get_current_value(mt) > tier
    /\ FillAdd(tier, "heavy", tier)
    /\ UNCHANGED <<before, call, generator, tree_value, dic, lines>>
    /\ UNCHANGED hybrid_vars

\* heavy_fill_tree: for tier in range(5, 0, -1), then return mt
HeavyNext ==
    /\ pc = "heavy"
    /\ ~(mt.maximum_tree_value - get_current_value(mt) > tier)
    /\ IF tier = 1
       THEN pc' = "filled" /\ tier' = 1
       ELSE pc' = "heavy" /\ tier' = tier - 1
    /\ UNCHANGED gen_vars
    /\ UNCHANGED hybrid_vars

\* light_fill_tree: while mt.get_current_value() < mt.maximum_tree_value
LightAdd ==
    /\ pc = "light"
    /\ get_current_value(mt) < mt.maximum_tree_value
    /\ FillAdd(1, "light", tier)
    /\ UNCHANGED <<before, call, generator, tree_value, dic, lines>>
    /\ UNCHANGED hybrid_vars

LightReturn ==
    /\ pc = "light"
    /\ ~(get_current_value(mt) < mt.maximum_tree_value)
    /\ pc' = "filled"
    /\ tier' = 1
    /\ UNCHANGED gen_vars
    /\ UNCHANGED hybrid_vars

\* evenly_fill_tree: while mt.get_current_value() < mt.maximum_tree_value
EvenWhile ==
    /\ pc = "even_while"
    /\ IF get_current_value(mt) < mt.maximum_tree_value
       THEN pc' = "even_for" /\ tier' = 5
       ELSE pc' = "filled" /\ tier' = 1
    /\ UNCHANGED gen_vars
    /\ UNCHANGED hybrid_vars

\* evenly_fill_tree: for tier in range(5, 0, -1): if space >= tier: add_point
EvenFor ==
    /\ pc = "even_for"
    /\ LET next_pc == IF tier = 1 THEN "even_while" ELSE "even_for"
           next_tier == IF tier = 1 THEN 5 ELSE tier - 1
       IN IF get_available_space(mt) >= tier
          THEN FillAdd(tier, next_pc, next_tier)
          ELSE /\ pc' = next_pc
               /\ tier' = next_tier
               /\ mt' = mt
    /\ UNCHANGED <<before, call, generator, tree_value, dic, lines>>
    /\ UNCHANGED hybrid_vars

\* A caller's mt.add_point(point) with a point of any tier, on a tree at hand
\* or returned by a generator: the point is appended, or ValueError is raised.
AddPointCall ==
    /\ pc \in {"idle", "filled"}
    /\ \E t \in Tiers :
         LET point == create_random_mp(t, <<"p", t>>, Len(mt.points[t])) IN
         /\ before' = mt
         /\ IF add_point_fits(mt, point)
            THEN /\ mt' = add_point(mt, point)
                 /\ call' = [op |-> "add_point", point |-> point, raised |-> FALSE]
            ELSE /\ mt' = mt
                 /\ call' = [op |-> "add_point", point |-> point, raised |-> TRUE]
    /\ pc' = "idle"
    /\ UNCHANGED <<generator, tree_value, tier, dic, lines>>
    /\ UNCHANGED hybrid_vars

GenNext ==
    \/ CallFromDict
    \/ TreeFromFile
    \/ CallGenerator
    \/ HeavyAdd
    \/ HeavyNext
    \/ LightAdd
    \/ LightReturn
    \/ EvenWhile
    \/ EvenFor
    \/ AddPointCall

GenSpec == GenInit /\ [][GenNext]_vars

(***************************************************************************)
(* Properties of create_hybrid_tree                                        *)
(***************************************************************************)

\* create_hybrid_tree has fused its arguments and holds pool and nt.
InLoop == pc \in {"while", "for", "done"} /\ err = "none"

Returned == pc = "done"

SameBudget == first_tree.maximum_tree_value = second_tree.maximum_tree_value

\* The points of the pool at tier t that nt does not hold.
Undrawn(t) == Range(pool.points[t]) \ Range(nt.points[t])

NoRepeat(s) == \A i, j \in 1..Len(s) : s[i] = s[j] => i = j

IsEmptyTree(tree) == \A t \in Tiers : tree.points[t] = <<>>

\* C1: in every state of the loop and at return, the current value of the
\* hybrid is at most the maximum_tree_value of the pool fuse(A, B).
C1_HybridWithinPoolBudget ==
    InLoop => get_current_value(nt) <= pool.maximum_tree_value

\* C2: in every state of the loop and at return, every point in bucket t of
\* the hybrid is a point of bucket t of the pool fuse(A, B).
C2_PointsFromPool ==
    InLoop => \A t \in Tiers : Range(nt.points[t]) \subseteq Range(pool.points[t])

\* C2 witness: the loop has returned a hybrid that holds points of both
\* arguments and has left a point of the pool undrawn.
C2_Witness ==
    /\ Returned
    /\ \E t \in Tiers : Range(nt.points[t]) \cap Range(first_tree.points[t]) # {}
    /\ \E t \in Tiers : Range(nt.points[t]) \cap Range(second_tree.points[t]) # {}
    /\ \E t \in Tiers : Undrawn(t) # {}
    /\ first_tree # second_tree

\* An outer pass begins (the for loop is at tier 1) only when some undrawn
\* point of the pool fits in the space left, so the pass can insert.
PassCanInsert ==
    (InLoop /\ pc = "for" /\ tier = 1)
        => \E t \in Tiers : Undrawn(t) # {} /\ t <= get_available_space(nt)

\* The while test on two empty trees returns the empty hybrid.
EmptyReturnsAtOnce ==
    (pc = "while" /\ IsEmptyTree(first_tree) /\ IsEmptyTree(second_tree))
        => (pc' = "done" /\ IsEmptyTree(nt') /\ ~is_finished(nt'))

\* C3: with fair draws, create_hybrid_tree on trees of equal budget returns;
\* no outer pass begins without a point it can insert; on two empty trees the
\* first while test returns the empty, unfinished hybrid.
C3_Terminates ==
    /\ [](SameBudget => <>Returned)
    /\ []PassCanInsert
    /\ [][EmptyReturnsAtOnce]_vars

\* C3 witness: the loop has returned a hybrid short of its budget while the
\* pool still holds undrawn points, none of which fits.
C3_Witness ==
    /\ Returned
    /\ ~is_complete(nt)
    /\ get_total_number_of_points(nt) > 0
    /\ \E t \in Tiers : Undrawn(t) # {}

\* C6: no point appears twice in a bucket of the hybrid, in any state of the
\* loop, and the hybrid never holds more points than the pool.
C6_NoPointTwice ==
    InLoop =>
        /\ \A t \in Tiers : NoRepeat(nt.points[t])
        /\ get_total_number_of_points(nt) <= get_total_number_of_points(pool)

\* C6 witness: create_hybrid_tree(A, A) has returned, every bucket of the
\* pool holding each point of A twice, and the hybrid holds points.
C6_Witness ==
    /\ Returned
    /\ first_tree = second_tree
    /\ \E t \in Tiers : Len(pool.points[t]) >= 2 /\ ~NoRepeat(pool.points[t])
    /\ get_total_number_of_points(nt) >= 2

\* C7: on two trees whose maximum_tree_value differ, the call ends raised by
\* fuse, with no pool returned and no hybrid built.
C7_MismatchRaises ==
    (pc # "start" /\ ~SameBudget)
        => (pc = "raised" /\ err = "fuse" /\ pool = NoTree /\ nt = NoTree)

\* C7 witness: the call on two non-empty trees of different budgets has raised.
C7_Witness ==
    /\ pc = "raised"
    /\ ~SameBudget
    /\ ~IsEmptyTree(first_tree)
    /\ ~IsEmptyTree(second_tree)

\* C8: the hybrid's maximum_tree_value is the pool's maximum_tree_value.
C8_HybridBudgetIsPoolBudget ==
    InLoop => nt.maximum_tree_value = pool.maximum_tree_value

(***************************************************************************)
(* Properties of add_point, the fill strategies and the generators         *)
(***************************************************************************)

\* The last add_point call was made over budget.
OverBudgetCall ==
    /\ call.op = "add_point"
    /\ get_current_value(before) + call.point.tier > before.maximum_tree_value

\* C4: an add_point call made when current value + point.tier exceeds
\* maximum_tree_value raises and leaves buckets, value and budget as before.
C4_OverBudgetLeavesTree ==
    OverBudgetCall =>
        /\ call.raised
        /\ mt.points = before.points
        /\ get_current_value(mt) = get_current_value(before)
        /\ mt.maximum_tree_value = before.maximum_tree_value

\* C4 witness: an over-budget call was made on a tree that holds points and
\* still has space left.
C4_Witness ==
    /\ OverBudgetCall
    /\ ~IsEmptyTree(before)
    /\ get_available_space(before) > 0

\* C5: a tree created empty or by a generator, after any add_point calls,
\* has a current value of at most maximum_tree_value and holds in bucket t
\* only points of tier t.
C5_TreeInvariant ==
    (mt # NoTree) =>
        /\ get_current_value(mt) <= mt.maximum_tree_value
        /\ \A t \in Tiers : \A i \in 1..Len(mt.points[t]) : mt.points[t][i].tier = t

\* C5 witness: a call has raised on a tree that an earlier call added to and
\* that is now full.
C5_Witness ==
    /\ call.op = "add_point"
    /\ call.raised
    /\ is_complete(mt)
    /\ \E t \in Tiers : \E i \in 1..Len(mt.points[t]) : mt.points[t][i].name[1][1] = "p"

\* C9: each fill strategy, on its skeleton of the default budget, returns a
\* complete tree.
C9_FillCompletes ==
    (pc = "filled" /\ tree_value = DefaultMaximumTreeValue) => is_complete(mt)

\* C10: the tree a shape generator's function returns has maximum_tree_value
\* equal to the target value and is filled up to it, for every target value
\* at least the skeleton's value.
C10_GeneratorReachesTreeValue ==
    (pc = "filled"
        /\ tree_value >= get_current_value(Skeleton(generator, tree_value)))
        => /\ mt.maximum_tree_value = tree_value
           /\ get_current_value(mt) = tree_value

\* The number of points a tree holds at tier t.
Count(tree, t) == Len(tree.points[t])

\* The four unlock gates, written out on the numbers of points per tier.
GatesOpen(tree) ==
    /\ Count(tree, 1) >= 1
    /\ Count(tree, 1) + 2 * Count(tree, 2) >= 3
    /\ Count(tree, 1) + 2 * Count(tree, 2) + 3 * Count(tree, 3) >= 6
    /\ Count(tree, 1) + 2 * Count(tree, 2) + 3 * Count(tree, 3)
         + 4 * Count(tree, 4) >= 10

\* The tree's value, written out on the numbers of points per tier.
ValueByCounts(tree) ==
    Count(tree, 1) + 2 * Count(tree, 2) + 3 * Count(tree, 3)
        + 4 * Count(tree, 4) + 5 * Count(tree, 5)

\* C11: is_viable() is true exactly when the cumulative values at tiers 1, 2,
\* 3 and 4 are at least 1, 3, 6 and 10; a tree with no tier-1 point is not
\* viable; is_finished() is true exactly when the tree is viable and its
\* current value equals maximum_tree_value.
C11_ViableIffGates ==
    (mt # NoTree) =>
        /\ is_viable(mt) <=> GatesOpen(mt)
        /\ Count(mt, 1) = 0 => ~is_viable(mt)
        /\ is_finished(mt) <=>
             (GatesOpen(mt) /\ ValueByCounts(mt) = mt.maximum_tree_value)

\* C11 witness: a tree with no tier-1 point whose tiers 2 to 4 meet the gates
\* of tiers 2, 3 and 4, and which is full.
C11_Witness ==
    /\ mt # NoTree
    /\ Count(mt, 1) = 0
    /\ 2 * Count(mt, 2) >= 3
    /\ 2 * Count(mt, 2) + 3 * Count(mt, 3) >= 6
    /\ 2 * Count(mt, 2) + 3 * Count(mt, 3) + 4 * Count(mt, 4) >= 10
    /\ ValueByCounts(mt) = mt.maximum_tree_value

\* The number a line of one or two decimal digits writes.
Written(digits) ==
    IF Len(digits) = 1 THEN digits[1] ELSE 10 * digits[1] + digits[2]

\* The descriptor file of lines 1, 3, 3, 4, 3.
ScenarioFile == [t \in Tiers |-> <<(<<1, 3, 3, 4, 3>>)[t]>>]

\* generate_from_dict or tree_from_file has just returned mt.
FromDictReturned ==
    generator \in {"from_dict", "from_file"} /\ pc = "idle" /\ call.op = "none"

\* C12: the tree generate_from_dict returns holds at each tier the given
\* number of points and has maximum_tree_value equal to the sum of tier times
\* count, so it is complete with no space left; the file of lines 1, 3, 3, 4,
\* 3 gives a budget of 47 and 14 points.
C12_FromDictMatchesCounts ==
    FromDictReturned =>
        /\ \A t \in Tiers : Count(mt, t) = dic[t]
        /\ mt.maximum_tree_value =
             dic[1] + 2 * dic[2] + 3 * dic[3] + 4 * dic[4] + 5 * dic[5]
        /\ is_complete(mt)
        /\ get_available_space(mt) = 0
        /\ generator = "from_file" =>
             \A t \in Tiers : Count(mt, t) = Written(lines[t])
        /\ (generator = "from_file" /\ lines = ScenarioFile) =>
             /\ mt.maximum_tree_value = 47
             /\ get_total_number_of_points(mt) = 14

\* C12 witness: tree_from_file has returned the tree of the file of lines
\* 1, 3, 3, 4, 3.
C12_Witness ==
    /\ FromDictReturned
    /\ generator = "from_file"
    /\ lines = ScenarioFile
    /\ get_total_number_of_points(mt) > 0

\* C13: fuse leaves both input trees as they were and returns a tree with
\* its own buckets: no step after the call, add_point on the fused tree and
\* the steps of create_hybrid_tree included, changes first_tree or second_tree
\* (their buckets, and so their current value, and their maximum_tree_value).
C13_FuseLeavesInputs ==
    [][first_tree' = first_tree /\ second_tree' = second_tree]_vars

\* C13 witness: a point was added to the tree fused from two trees that hold
\* points.
C13_Witness ==
    /\ pc = "fused"
    /\ ~IsEmptyTree(first_tree)
    /\ ~IsEmptyTree(second_tree)
    /\ get_total_number_of_points(pool)
         > get_total_number_of_points(first_tree)
           + get_total_number_of_points(second_tree)

\* How many times point x stands in bucket s.
Occurrences(s, x) == Cardinality({i \in 1..Len(s) : s[i] = x})

\* Trees a and b hold the same points at every tier, as often.
SameMembership(a, b) ==
    \A t \in Tiers :
        \A x \in Range(a.points[t]) \cup Range(b.points[t]) :
            Occurrences(a.points[t], x) = Occurrences(b.points[t], x)

\* C14: for first_tree and second_tree of equal maximum_tree_value, the pool
\* first_tree.fuse(second_tree) holds at every tier each point as often as
\* first_tree and second_tree together, second_tree.fuse(first_tree) holds
\* the same points as often, and both have the same maximum_tree_value.
C14_FuseCommutes ==
    InLoop =>
        LET reversed == fuse(second_tree, first_tree) IN
        /\ \A t \in Tiers :
             \A x \in Range(first_tree.points[t]) \cup Range(second_tree.points[t])
                        \cup Range(pool.points[t]) :
                 Occurrences(pool.points[t], x)
                     = Occurrences(first_tree.points[t], x)
                       + Occurrences(second_tree.points[t], x)
        /\ SameMembership(pool, reversed)
        /\ pool.maximum_tree_value = reversed.maximum_tree_value
        /\ pool.maximum_tree_value = first_tree.maximum_tree_value

\* C14 witness: two trees were fused whose points share a tier, so that the
\* bucket order of the two fusions differs.
C14_Witness ==
    /\ InLoop
    /\ \E t \in Tiers :
         /\ first_tree.points[t] # <<>>
         /\ second_tree.points[t] # <<>>
         /\ pool.points[t] # fuse(second_tree, first_tree).points[t]

\* C15: when create_hybrid_tree returns a tree that is not complete, every
\* point of the pool that the tree does not hold has a tier greater than the
\* available space of the tree: no undrawn point still fits.
C15_NoLegalDrawLeft ==
    (Returned /\ ~is_complete(nt)) =>
        \A t \in Tiers :
            \A point \in Undrawn(t) : point.tier > get_available_space(nt)

\* C15 witness: the hybrid is returned with space left and with undrawn
\* points, all of a tier above that space.
C15_Witness ==
    /\ Returned
    /\ ~is_complete(nt)
    /\ get_available_space(nt) >= 1
    /\ \E t \in Tiers : \E point \in Undrawn(t) :
         point.tier > get_available_space(nt)

\* C16: inside create_hybrid_tree add_point never raises: at every tier of
\* every pass where a point is drawn, after the insertions already made, the
\* tier of the point is at most the space the hybrid has left.
C16_NoBudgetError ==
    /\ err # "budget"
    /\ (pc = "for" /\ CanDraw) =>
         \A point \in get_random_by_tier(pool, tier) :
             get_current_value(nt) + point.tier <= nt.maximum_tree_value

\* C16 witness: a point the hybrid does not hold is about to be drawn at a
\* tier equal to the space left, after insertions of the same pass.
C16_Witness ==
    /\ pc = "for"
    /\ CanDraw
    /\ tier = nt.maximum_tree_value - get_current_value(nt)
    /\ Undrawn(tier) # {}
    /\ err = "none"

\* The pool holds a point at each of the tiers 1, 2, 3 and 4.
PoolHasLowTiers == \A t \in 1..4 : Count(pool, t) >= 1

\* C17: when the pool fuse(A, B) holds a point at each of the tiers 1, 2, 3
\* and 4, the hybrid is viable after its first pass, stays viable under every
\* later insertion, and so is viable when create_hybrid_tree returns it.
C17_LowTiersGiveViable ==
    (InLoop /\ PoolHasLowTiers) =>
        /\ (pc = "while" /\ ~IsEmptyTree(nt)) => GatesOpen(nt)
        /\ Returned => (GatesOpen(nt) /\ is_viable(nt))

\* C17 witness: the hybrid of a pool with points at the tiers 1 to 4 is
\* returned after more than one pass.
C17_Witness ==
    /\ Returned
    /\ PoolHasLowTiers
    /\ GatesOpen(nt)
    /\ \E t \in Tiers : Count(nt, t) >= 2

====
